---- MODULE Spec2Model ----
(***************************************************************************)
(* Model of the operating-room scheduler of src/main.py: the Surgery       *)
(* ordering, the pending min-heap, the room and surgeon trackers, the      *)
(* earliest-feasible-slot search and the commit/reject loop.               *)
(* Timestamps are minutes since midnight of the scheduling day.            *)
(***************************************************************************)
EXTENDS Integers, Sequences, FiniteSets, TLC

VARIABLES
    or_ids,                 \* key order of the dict self.ors
    surgeon_ids,            \* the surgeon registry passed to Scheduler.__init__
    ors,                    \* self.ors: room id -> next free time
    surgeons,               \* self.surgeons: surgeon id -> next free time
    pending_surgeries,      \* self.pending_surgeries, the heap array
    scheduled_surgeries,    \* self.scheduled_surgeries
    unscheduled_surgeries,  \* self.unscheduled_surgeries
    pc,                     \* "idle" before the run, "running" inside the loop, "done" after it
    added,                  \* history: the Surgery objects passed to add_surgery, in call order
    popped,                 \* history: s_id of every heappop result, in pop order
    last,                   \* history: the latest loop iteration (trackers it saw, what the search returned)
    operands,               \* the Surgery objects handed to a comparison of the ordering alone
    compared                \* compared[i][j]: what operands[i] < operands[j] returned

vars == <<or_ids, surgeon_ids, ors, surgeons, pending_surgeries, scheduled_surgeries,
          unscheduled_surgeries, pc, added, popped, last, operands, compared>>

-----------------------------------------------------------------------------
(* Bounds of the model *)

MaxTasks == 3

\* Constructor arguments of the Surgery objects the model hands to add_surgery:
\* <<duration_minutes, surgeon_id, priority, surgeon_seniority>>
Catalogue ==
    { <<45,  "Dr. Smith", "Urgent",    2>>,
      <<90,  "Dr. Jones", "Urgent",    2>>,
      <<420, "Dr. Smith", "Emergency", 1>>,
      <<90,  "Dr. Smith", "Elective",  1>>,
      <<-30, "Dr. Smith", "Urgent",    1>>,
      <<420, "Dr. Lee",   "Emergency", 3>>,
      <<90,  "Dr. Lee",   "Routine",   3>>,
      <<0,   "Dr. Who",   "Urgent",    1>>,
      <<600, "Dr. Who",   "Emergency", 1>>,
      <<45,  "Dr. Who",   "Elective",  2>> }

\* Room lists given to the constructor ("" is a room identifier like any other string)
RoomRegistries == { <<"OR-A", "OR-B">>, <<"", "OR-A">> }

\* Surgeon lists given to the constructor
SurgeonRegistries == { {"Dr. Smith", "Dr. Jones"}, {"Dr. Smith", "Dr. Jones", "Dr. Lee", "Dr. Who"} }

-----------------------------------------------------------------------------
(* Module constants *)

OR_START_HOUR == 7
OR_START_MINUTE == 30
OR_END_HOUR == 16
OR_END_MINUTE == 30

CUSTOM_SURGEON_HOURS ==
    [s \in {"Dr. Smith", "Dr. Jones", "Dr. Lee", "Dr. Patel", "Dr. Singh", "Dr. Gupta"} |->
        CASE s = "Dr. Smith" -> <<7, 30, 16, 30>>
          [] s = "Dr. Jones" -> <<8, 0, 16, 0>>
          [] s = "Dr. Lee"   -> <<7, 30, 14, 0>>
          [] s = "Dr. Patel" -> <<7, 30, 16, 30>>
          [] s = "Dr. Singh" -> <<8, 0, 15, 0>>
          [] s = "Dr. Gupta" -> <<7, 30, 14, 30>>]

\* Python's None in a room field, and in a timestamp field
None == "None"
NoTime == -1

\* timedelta(days=1), in minutes
OneDay == 1440

-----------------------------------------------------------------------------
(* class Surgery *)

Surgery(s_id, duration_minutes, surgeon_id, priority, surgeon_seniority) ==
    [s_id |-> s_id, duration |-> duration_minutes, surgeon_id |-> surgeon_id,
     priority |-> priority, surgeon_seniority |-> surgeon_seniority,
     scheduled_or |-> None, scheduled_start_time |-> NoTime, scheduled_end_time |-> NoTime]

get_priority_value(self) ==
    IF self.priority = "Emergency" THEN 1
    ELSE IF self.priority = "Urgent" THEN 2
    ELSE 3

\* lt with the final tie-break reversed: the longer case first
lt_longer_first(self, other) ==
    IF get_priority_value(self) # get_priority_value(other)
    THEN get_priority_value(self) < get_priority_value(other)
    ELSE IF self.surgeon_seniority # other.surgeon_seniority
    THEN self.surgeon_seniority < other.surgeon_seniority
    ELSE self.duration > other.duration

\* lt with <= in the final tie-break
lt_or_equal(self, other) ==
    IF get_priority_value(self) # get_priority_value(other)
    THEN get_priority_value(self) < get_priority_value(other)
    ELSE IF self.surgeon_seniority # other.surgeon_seniority
    THEN self.surgeon_seniority < other.surgeon_seniority
    ELSE self.duration <= other.duration

lt(self, other) ==
    IF get_priority_value(self) # get_priority_value(other)
    THEN get_priority_value(self) < get_priority_value(other)
    ELSE IF self.surgeon_seniority # other.surgeon_seniority
    THEN self.surgeon_seniority < other.surgeon_seniority
    ELSE self.duration < other.duration

-----------------------------------------------------------------------------
(* heapq on a list whose position p is element p + 1 of the sequence *)

RECURSIVE siftdown_loop(_, _, _, _)
siftdown_loop(heap, startpos, pos, newitem) ==
    IF pos > startpos
    THEN LET parentpos == (pos - 1) \div 2
             parent == heap[parentpos + 1]
         IN  IF lt(newitem, parent)
             THEN siftdown_loop([heap EXCEPT ![pos + 1] = parent], startpos, parentpos, newitem)
             ELSE [heap EXCEPT ![pos + 1] = newitem]
    ELSE [heap EXCEPT ![pos + 1] = newitem]

_siftdown(heap, startpos, pos) == siftdown_loop(heap, startpos, pos, heap[pos + 1])

RECURSIVE siftup_loop(_, _, _, _)
siftup_loop(heap, startpos, pos, newitem) ==
    LET endpos == Len(heap)
        childpos == 2 * pos + 1
        rightpos == childpos + 1
    IN  IF childpos < endpos
        THEN LET c == IF rightpos < endpos /\ ~lt(heap[childpos + 1], heap[rightpos + 1])
                      THEN rightpos ELSE childpos
             IN  siftup_loop([heap EXCEPT ![pos + 1] = heap[c + 1]], startpos, c, newitem)
        ELSE _siftdown([heap EXCEPT ![pos + 1] = newitem], startpos, pos)

_siftup(heap, pos) == siftup_loop(heap, pos, pos, heap[pos + 1])

heappush(heap, item) == _siftdown(Append(heap, item), 0, Len(heap))

\* <<returned item, heap afterwards>>
heappop(heap) ==
    LET lastelt == heap[Len(heap)]
        rest == SubSeq(heap, 1, Len(heap) - 1)
    IN  IF rest # <<>>
        THEN <<rest[1], _siftup([rest EXCEPT ![1] = lastelt], 0)>>
        ELSE <<lastelt, rest>>

-----------------------------------------------------------------------------
(* class Scheduler *)

_day_start(hour, minute) == hour * 60 + minute

_day_end(hour, minute) == hour * 60 + minute

\* _surgeon_shift_limits falling back to an 08:00-16:00 window
_surgeon_shift_limits_fixed_fallback(surgeon_id) ==
    LET h == IF surgeon_id \in DOMAIN CUSTOM_SURGEON_HOURS
             THEN CUSTOM_SURGEON_HOURS[surgeon_id]
             ELSE <<8, 0, 16, 0>>
    IN  <<_day_start(h[1], h[2]), _day_end(h[3], h[4])>>

_surgeon_shift_limits(surgeon_id) ==
    LET h == IF surgeon_id \in DOMAIN CUSTOM_SURGEON_HOURS
             THEN CUSTOM_SURGEON_HOURS[surgeon_id]
             ELSE <<OR_START_HOUR, OR_START_MINUTE, OR_END_HOUR, OR_END_MINUTE>>
    IN  <<_day_start(h[1], h[2]), _day_end(h[3], h[4])>>

Max3(a, b, c) ==
    LET ab == IF b > a THEN b ELSE a
    IN  IF c > ab THEN c ELSE ab

\* possible with the duration left out of possible_end
possible_without_duration(or_available, surgeon_available, shift_start, duration) ==
    LET possible_start == Max3(or_available, surgeon_available, shift_start)
    IN  <<possible_start, possible_start>>

\* possible that forgets when the room is free
possible_ignoring_room(or_available, surgeon_available, shift_start, duration) ==
    LET possible_start == IF surgeon_available > shift_start THEN surgeon_available ELSE shift_start
    IN  <<possible_start, possible_start + duration>>

\* possible that forgets the start of the surgeon's shift
possible_ignoring_shift(or_available, surgeon_available, shift_start, duration) ==
    LET possible_start == IF surgeon_available > or_available THEN surgeon_available ELSE or_available
    IN  <<possible_start, possible_start + duration>>

\* lines 122-123: <<possible_start, possible_end>>
possible(or_available, surgeon_available, shift_start, duration) ==
    LET possible_start == Max3(or_available, surgeon_available, shift_start)
    IN  <<possible_start, possible_start + duration>>

\* dict.get(key, default)
Get(d, key, default) == IF key \in DOMAIN d THEN d[key] ELSE default

\* d[key] = value
Put(d, key, value) == [k \in DOMAIN d \cup {key} |-> IF k = key THEN value ELSE d[k]]

\* truth value of a room identifier in "if best_or:" / "if or_id and start:"
Truthy(or_id) == or_id # None /\ or_id # ""

\* Fits without the surgeon's own limit
Fits_day_only(possible_end, shift_end) ==
    possible_end <= _day_end(OR_END_HOUR, OR_END_MINUTE)

\* the test of line 126
Fits(possible_end, shift_end) ==
    possible_end <= _day_end(OR_END_HOUR, OR_END_MINUTE) /\ possible_end <= shift_end

\* slot_loop that takes a later room on an equal start
RECURSIVE slot_loop_last_on_tie(_, _, _, _, _, _, _)
slot_loop_last_on_tie(surgery, keys, orsNow, surgeonsNow, i, earliest_start, best_or) ==
    IF i > Len(keys) THEN <<best_or, earliest_start>>
    ELSE LET or_id == keys[i]
             or_available == orsNow[or_id]
             shift == _surgeon_shift_limits(surgery.surgeon_id)
             surgeon_available == Get(surgeonsNow, surgery.surgeon_id, shift[1])
             slot == possible(or_available, surgeon_available, shift[1], surgery.duration)
             possible_start == slot[1]
             possible_end == slot[2]
         IN  IF Fits(possible_end, shift[2]) /\ possible_start <= earliest_start
             THEN slot_loop_last_on_tie(surgery, keys, orsNow, surgeonsNow, i + 1, possible_start, or_id)
             ELSE slot_loop_last_on_tie(surgery, keys, orsNow, surgeonsNow, i + 1, earliest_start, best_or)

\* the for loop of lines 117-131 from position i of the dict's key order on
RECURSIVE slot_loop(_, _, _, _, _, _, _)
slot_loop(surgery, keys, orsNow, surgeonsNow, i, earliest_start, best_or) ==
    IF i > Len(keys) THEN <<best_or, earliest_start>>
    ELSE LET or_id == keys[i]
             or_available == orsNow[or_id]
             shift == _surgeon_shift_limits(surgery.surgeon_id)
             surgeon_available == Get(surgeonsNow, surgery.surgeon_id, shift[1])
             slot == possible(or_available, surgeon_available, shift[1], surgery.duration)
             possible_start == slot[1]
             possible_end == slot[2]
         IN  IF Fits(possible_end, shift[2]) /\ possible_start < earliest_start
             THEN slot_loop(surgery, keys, orsNow, surgeonsNow, i + 1, possible_start, or_id)
             ELSE slot_loop(surgery, keys, orsNow, surgeonsNow, i + 1, earliest_start, best_or)

\* <<best_or, earliest_start>>, or <<None, NoTime>> for (None, None)
_find_earliest_feasible_slot(surgery, keys, orsNow, surgeonsNow) ==
    LET r == slot_loop(surgery, keys, orsNow, surgeonsNow, 1,
                       _day_end(OR_END_HOUR, OR_END_MINUTE) + OneDay, None)
    IN  IF Truthy(r[1]) THEN r ELSE <<None, NoTime>>

-----------------------------------------------------------------------------
(* State machine *)

\* Scheduler.__init__
new_scheduler ==
    /\ or_ids \in RoomRegistries
    /\ surgeon_ids \in SurgeonRegistries
    /\ ors = [r \in {or_ids[i] : i \in 1..Len(or_ids)} |-> _day_start(OR_START_HOUR, OR_START_MINUTE)]
    /\ surgeons = [s \in surgeon_ids |-> _day_start(OR_START_HOUR, OR_START_MINUTE)]
    /\ pending_surgeries = <<>>
    /\ scheduled_surgeries = <<>>
    /\ unscheduled_surgeries = <<>>
    /\ pc = "idle"
    /\ added = <<>>
    /\ popped = <<>>
    /\ last = [s_id |-> 0, ors |-> ors, surgeons |-> surgeons, or_id |-> None, start |-> NoTime,
               shift |-> <<NoTime, NoTime>>]

Init ==
    /\ new_scheduler
    /\ operands = <<>>
    /\ compared = <<>>

add_surgery ==
    /\ pc = "idle"
    /\ Len(added) < MaxTasks
    /\ \E c \in Catalogue :
          LET surgery == Surgery(Len(added) + 1, c[1], c[2], c[3], c[4])
          IN  /\ pending_surgeries' = heappush(pending_surgeries, surgery)
              /\ added' = Append(added, surgery)
    /\ UNCHANGED <<operands, compared, or_ids, surgeon_ids, ors, surgeons, scheduled_surgeries,
                   unscheduled_surgeries, pc, popped, last>>

\* insert_by_start that puts a case before the cases with the same start
RECURSIVE insert_by_start_unstable(_, _)
insert_by_start_unstable(sorted, s) ==
    IF sorted = <<>> THEN <<s>>
    ELSE IF sorted[Len(sorted)].scheduled_start_time < s.scheduled_start_time
         THEN Append(sorted, s)
         ELSE Append(insert_by_start_unstable(SubSeq(sorted, 1, Len(sorted) - 1), s), sorted[Len(sorted)])

\* list.sort(key=lambda s: s.scheduled_start_time): stable, ascending
RECURSIVE insert_by_start(_, _)
insert_by_start(sorted, s) ==
    IF sorted = <<>> THEN <<s>>
    ELSE IF sorted[Len(sorted)].scheduled_start_time <= s.scheduled_start_time
         THEN Append(sorted, s)
         ELSE Append(insert_by_start(SubSeq(sorted, 1, Len(sorted) - 1), s), sorted[Len(sorted)])

RECURSIVE sort_by_start(_)
sort_by_start(list) ==
    IF list = <<>> THEN <<>>
    ELSE insert_by_start(sort_by_start(SubSeq(list, 1, Len(list) - 1)), list[Len(list)])

\* lines 151-153: the outcome fields of a committed case
assign(case, or_id, start) ==
    [case EXCEPT !.scheduled_or = or_id,
                 !.scheduled_start_time = start,
                 !.scheduled_end_time = start + case.duration]

\* reject that drops the case
reject_dropped(unscheduled, case) == unscheduled

\* line 162
reject(unscheduled, case) == Append(unscheduled, case)

\* what one loop iteration records about itself
iteration(case, slot) ==
    [s_id |-> case.s_id, ors |-> ors, surgeons |-> surgeons, or_id |-> slot[1], start |-> slot[2],
     shift |-> _surgeon_shift_limits(case.surgeon_id)]

\* leaving the while loop: line 165 and the return
finish(heap, scheduled) ==
    IF heap = <<>>
    THEN /\ scheduled_surgeries' = sort_by_start(scheduled)
         /\ pc' = "done"
    ELSE /\ scheduled_surgeries' = scheduled
         /\ pc' = "running"

\* triage_commit without the surgeon tracker update of line 157
triage_commit_room_only ==
    /\ pc \in {"idle", "running"}
    /\ pending_surgeries # <<>>
    /\ LET p == heappop(pending_surgeries)
           case == p[1]
           slot == _find_earliest_feasible_slot(case, or_ids, ors, surgeons)
           done == assign(case, slot[1], slot[2])
       IN  /\ Truthy(slot[1]) /\ slot[2] # NoTime
           /\ pending_surgeries' = p[2]
           /\ ors' = Put(ors, slot[1], done.scheduled_end_time)
           /\ surgeons' = surgeons
           /\ finish(p[2], Append(scheduled_surgeries, done))
           /\ popped' = Append(popped, case.s_id)
           /\ last' = iteration(case, slot)
    /\ UNCHANGED <<operands, compared, or_ids, surgeon_ids, unscheduled_surgeries, added>>

\* one iteration of the while loop that takes the branch of line 149
triage_commit ==
    /\ pc \in {"idle", "running"}
    /\ pending_surgeries # <<>>
    /\ LET p == heappop(pending_surgeries)
           case == p[1]
           slot == _find_earliest_feasible_slot(case, or_ids, ors, surgeons)
           done == assign(case, slot[1], slot[2])
       IN  /\ Truthy(slot[1]) /\ slot[2] # NoTime
           /\ pending_surgeries' = p[2]
           /\ ors' = Put(ors, slot[1], done.scheduled_end_time)
           /\ surgeons' = Put(surgeons, case.surgeon_id, done.scheduled_end_time)
           /\ finish(p[2], Append(scheduled_surgeries, done))
           /\ popped' = Append(popped, case.s_id)
           /\ last' = iteration(case, slot)
    /\ UNCHANGED <<operands, compared, or_ids, surgeon_ids, unscheduled_surgeries, added>>

\* triage_reject after a search that reads the surgeon tracker with
\* setdefault, leaving an entry for a surgeon it did not know
triage_reject_setdefault ==
    /\ pc \in {"idle", "running"}
    /\ pending_surgeries # <<>>
    /\ LET p == heappop(pending_surgeries)
           case == p[1]
           slot == _find_earliest_feasible_slot(case, or_ids, ors, surgeons)
       IN  /\ ~(Truthy(slot[1]) /\ slot[2] # NoTime)
           /\ pending_surgeries' = p[2]
           /\ unscheduled_surgeries' = reject(unscheduled_surgeries, case)
           /\ surgeons' = IF case.surgeon_id \in DOMAIN surgeons THEN surgeons
                          ELSE Put(surgeons, case.surgeon_id, _surgeon_shift_limits(case.surgeon_id)[1])
           /\ finish(p[2], scheduled_surgeries)
           /\ popped' = Append(popped, case.s_id)
           /\ last' = iteration(case, slot)
    /\ UNCHANGED <<operands, compared, or_ids, surgeon_ids, ors, added>>

\* triage_reject that records the case and also queues it again for a retry
triage_reject_requeue ==
    /\ pc \in {"idle", "running"}
    /\ pending_surgeries # <<>>
    /\ LET p == heappop(pending_surgeries)
           case == p[1]
           slot == _find_earliest_feasible_slot(case, or_ids, ors, surgeons)
       IN  /\ ~(Truthy(slot[1]) /\ slot[2] # NoTime)
           /\ pending_surgeries' = heappush(p[2], case)
           /\ unscheduled_surgeries' = reject(unscheduled_surgeries, case)
           /\ finish(p[2], scheduled_surgeries)
           /\ popped' = Append(popped, case.s_id)
           /\ last' = iteration(case, slot)
    /\ UNCHANGED <<operands, compared, or_ids, surgeon_ids, ors, surgeons, added>>

\* one iteration of the while loop that takes the branch of line 160
triage_reject ==
    /\ pc \in {"idle", "running"}
    /\ pending_surgeries # <<>>
    /\ LET p == heappop(pending_surgeries)
           case == p[1]
           slot == _find_earliest_feasible_slot(case, or_ids, ors, surgeons)
       IN  /\ ~(Truthy(slot[1]) /\ slot[2] # NoTime)
           /\ pending_surgeries' = p[2]
           /\ unscheduled_surgeries' = reject(unscheduled_surgeries, case)
           /\ finish(p[2], scheduled_surgeries)
           /\ popped' = Append(popped, case.s_id)
           /\ last' = iteration(case, slot)
    /\ UNCHANGED <<operands, compared, or_ids, surgeon_ids, ors, surgeons, added>>

\* triage_and_optimize_or_flow called with nothing pending
triage_empty ==
    /\ pc = "idle"
    /\ pending_surgeries = <<>>
    /\ finish(pending_surgeries, scheduled_surgeries)
    /\ UNCHANGED <<operands, compared, or_ids, surgeon_ids, ors, surgeons, pending_surgeries,
                   unscheduled_surgeries, added, popped, last>>

(* print_schedule: the utilization figures of lines 200-204 *)

total_minutes_available ==
    _day_end(OR_END_HOUR, OR_END_MINUTE) - _day_start(OR_START_HOUR, OR_START_MINUTE)

\* sum(s.duration for s in list if s.scheduled_or == or_id)
RECURSIVE sum_durations(_, _)
sum_durations(list, or_id) ==
    IF list = <<>> THEN 0
    ELSE sum_durations(Tail(list), or_id)
         + (IF Head(list).scheduled_or = or_id THEN Head(list).duration ELSE 0)

scheduled_minutes(or_id) == sum_durations(scheduled_surgeries, or_id)

idle(or_id) == total_minutes_available - scheduled_minutes(or_id)

Next ==
    \/ add_surgery
    \/ triage_commit
    \/ triage_reject
    \/ triage_empty

Spec == Init /\ [][Next]_vars

-----------------------------------------------------------------------------
(* The ordering on its own: three Surgery objects compared pairwise *)

LtPriorities == {"Emergency", "Urgent", "Elective", "Routine"}
LtSeniorities == {1, 2}
LtDurations == {45, 90}

LtObjects(s_id) ==
    { Surgery(s_id, d, "Dr. Smith", p, n) : d \in LtDurations, p \in LtPriorities, n \in LtSeniorities }

InitLt ==
    /\ new_scheduler
    /\ operands \in { <<a, b, c>> : a \in LtObjects(1), b \in LtObjects(2), c \in LtObjects(3) }
    /\ compared = <<>>

\* operands[i] < operands[j] for every pair
compare ==
    /\ compared = <<>>
    /\ compared' = [i \in 1..Len(operands) |-> [j \in 1..Len(operands) |-> lt(operands[i], operands[j])]]
    /\ UNCHANGED <<operands, or_ids, surgeon_ids, ors, surgeons, pending_surgeries,
                   scheduled_surgeries, unscheduled_surgeries, pc, added, popped, last>>

NextLt == compare

SpecLt == InitLt /\ [][NextLt]_vars

-----------------------------------------------------------------------------
(* Vocabulary of the properties *)

Range(seq) == {seq[i] : i \in 1..Len(seq)}

Rooms == Range(or_ids)

GlobalStart == 7 * 60 + 30
GlobalEnd == 16 * 60 + 30

\* half-open intervals [start, end) of two cases share a minute
Overlap(a, b) ==
    /\ a.scheduled_start_time < b.scheduled_end_time
    /\ b.scheduled_start_time < a.scheduled_end_time

TypeOK ==
    /\ pc \in {"idle", "running", "done"}
    /\ Len(added) <= MaxTasks
    /\ DOMAIN ors = Rooms

Scheduled == Range(scheduled_surgeries)
Unscheduled == Range(unscheduled_surgeries)
Pending == Range(pending_surgeries)

Ids(tasks) == {t.s_id : t \in tasks}

\* every duration handed to add_surgery is a positive number of minutes
ValidDurations == \A t \in Range(added) : t.duration > 0

\* the shift window of a surgeon as the table of lines 16-23 gives it
WindowStart(surgeon_id) ==
    IF surgeon_id \in DOMAIN CUSTOM_SURGEON_HOURS
    THEN CUSTOM_SURGEON_HOURS[surgeon_id][1] * 60 + CUSTOM_SURGEON_HOURS[surgeon_id][2]
    ELSE GlobalStart

WindowEnd(surgeon_id) ==
    IF surgeon_id \in DOMAIN CUSTOM_SURGEON_HOURS
    THEN CUSTOM_SURGEON_HOURS[surgeon_id][3] * 60 + CUSTOM_SURGEON_HOURS[surgeon_id][4]
    ELSE GlobalEnd

-----------------------------------------------------------------------------
(* Properties *)

\* C1: in every state of a run, two distinct scheduled tasks assigned to the
\* same room never have overlapping half-open intervals [start, end).
NonOverlapRooms ==
    \A a, b \in Scheduled :
        (a.s_id # b.s_id /\ a.scheduled_or = b.scheduled_or) => ~Overlap(a, b)

\* The same statement for runs in which every duration is positive.
NonOverlapRoomsValidDurations == ValidDurations => NonOverlapRooms

\* C2: two distinct scheduled tasks of the same surgeon, registered or not,
\* never have overlapping half-open intervals, whatever rooms they are in.
NonOverlapSurgeons ==
    \A a, b \in Scheduled :
        (a.s_id # b.s_id /\ a.surgeon_id = b.surgeon_id) => ~Overlap(a, b)

\* The same statement for runs in which every duration is positive.
NonOverlapSurgeonsValidDurations == ValidDurations => NonOverlapSurgeons

\* C3: every scheduled task ends at or before 16:30 and at or before the end
\* of its surgeon's window (the CUSTOM_SURGEON_HOURS entry, else the global one).
EndWithinWindows ==
    \A t \in Scheduled :
        /\ t.scheduled_end_time <= GlobalEnd
        /\ t.scheduled_end_time <= WindowEnd(t.surgeon_id)

\* A surgeon with a window that closes before 16:30 has one case scheduled
\* and one case, short enough for the global day, turned away.
EndWithinWindowsWitness ==
    \E t \in Scheduled, u \in Unscheduled :
        /\ t.surgeon_id = u.surgeon_id
        /\ WindowEnd(t.surgeon_id) < GlobalEnd
        /\ u.duration > 0
        /\ GlobalStart + u.duration <= GlobalEnd

\* C4: when the run has returned, scheduled and unscheduled together hold each
\* added task exactly once: none missing, none twice, none in both lists.
Partition ==
    pc = "done" =>
        LET out == scheduled_surgeries \o unscheduled_surgeries
        IN  /\ Len(out) = Len(added)
            /\ Ids(Range(out)) = Ids(Range(added))
            /\ \A t \in Range(out) :
                  /\ t.duration = added[t.s_id].duration
                  /\ t.surgeon_id = added[t.s_id].surgeon_id
                  /\ t.priority = added[t.s_id].priority
                  /\ t.surgeon_seniority = added[t.s_id].surgeon_seniority
            /\ pending_surgeries = <<>>

PartitionWitness ==
    /\ pc = "done"
    /\ Len(added) = MaxTasks
    /\ Scheduled # {}
    /\ Unscheduled # {}

\* C5: every scheduled task has end - start = duration and start < end.
DurationMatches ==
    \A t \in Scheduled :
        /\ t.scheduled_end_time - t.scheduled_start_time = t.duration
        /\ t.scheduled_start_time < t.scheduled_end_time

\* The same statement for runs in which every duration is positive.
DurationMatchesValidDurations == ValidDurations => DurationMatches

\* C6: a task with a zero or negative duration never gets into the pending
\* queue, the scheduled list or the unscheduled list.
InvalidTaskRejected ==
    \A t \in Pending \cup Scheduled \cup Unscheduled : t.duration > 0

\* a strictly precedes b: lower priority value, then lower seniority number,
\* then shorter duration
Precedes(a, b) ==
    \/ get_priority_value(a) < get_priority_value(b)
    \/ /\ get_priority_value(a) = get_priority_value(b)
       /\ a.surgeon_seniority < b.surgeon_seniority
    \/ /\ get_priority_value(a) = get_priority_value(b)
       /\ a.surgeon_seniority = b.surgeon_seniority
       /\ a.duration < b.duration

\* C7: whenever a step pops a task b, every added task that strictly precedes
\* b has already been popped and sits in scheduled or unscheduled, so its
\* commit-or-reject decision was complete before b's search started.
PopOrderRespectsPriority ==
    [][ popped' # popped =>
          LET b == added[popped'[Len(popped')]]
          IN  \A a \in Range(added) :
                 Precedes(a, b) =>
                    /\ a.s_id \in Range(popped)
                    /\ a.s_id \in Ids(Scheduled \cup Unscheduled) ]_vars

\* Two Urgent tasks of equal seniority, 90 minutes added first and 45 minutes
\* added second: the 45-minute one was committed first, and the search of the
\* 90-minute one read the room tracker that commit had written.
PopOrderWitness ==
    \E a, b \in Scheduled :
        /\ a.priority = "Urgent" /\ b.priority = "Urgent"
        /\ a.surgeon_seniority = b.surgeon_seniority
        /\ a.duration = 45 /\ b.duration = 90
        /\ b.s_id < a.s_id
        /\ last.s_id = b.s_id
        /\ last.ors[a.scheduled_or] = a.scheduled_end_time
        /\ \E i, j \in 1..Len(popped) : i < j /\ popped[i] = a.s_id /\ popped[j] = b.s_id

\* candidate of room r for a task, from the trackers a loop iteration started with
CandidateStart(r, t, orsThen, surgeonsThen) ==
    LET sa == IF t.surgeon_id \in DOMAIN surgeonsThen THEN surgeonsThen[t.surgeon_id]
              ELSE WindowStart(t.surgeon_id)
        m1 == IF orsThen[r] >= sa THEN orsThen[r] ELSE sa
    IN  IF m1 >= WindowStart(t.surgeon_id) THEN m1 ELSE WindowStart(t.surgeon_id)

FeasibleIn(r, t, orsThen, surgeonsThen) ==
    LET e == CandidateStart(r, t, orsThen, surgeonsThen) + t.duration
    IN  e <= GlobalEnd /\ e <= WindowEnd(t.surgeon_id)

\* C8: the task of the latest loop iteration is in unscheduled exactly when no
\* registered room was feasible for it with the trackers that iteration saw.
UnscheduledIffInfeasible ==
    last.s_id # 0 =>
        ( last.s_id \in Ids(Unscheduled)
          <=> ~ \E r \in Rooms : FeasibleIn(r, added[last.s_id], last.ors, last.surgeons) )

\* The same statement for constructors given only room identifiers that are
\* true in a Python condition.
UnscheduledIffInfeasibleTruthyRooms ==
    (\A r \in Rooms : r # "") => UnscheduledIffInfeasible

TooLongIsUnscheduled ==
    \A t \in Range(added) :
        t.duration > GlobalEnd - GlobalStart =>
            /\ t.s_id \notin Ids(Scheduled)
            /\ pc = "done" => t.s_id \in Ids(Unscheduled)

TooLongWitness ==
    /\ pc = "done"
    /\ \E t \in Unscheduled : t.duration > GlobalEnd - GlobalStart
    /\ Scheduled # {}

\* C11: no step lowers the next-free time of a room or of a surgeon that
\* already has a tracker entry.
TrackersNeverDecrease ==
    [][ /\ \A r \in DOMAIN ors : ors'[r] >= ors[r]
        /\ \A s \in DOMAIN surgeons : surgeons'[s] >= surgeons[s] ]_vars

\* The same statement for runs in which every duration is positive.
TrackersNeverDecreaseValidDurations ==
    [][ ValidDurations =>
          /\ \A r \in DOMAIN ors : ors'[r] >= ors[r]
          /\ \A s \in DOMAIN surgeons : surgeons'[s] >= surgeons[s] ]_vars

\* rooms that were feasible for a task with the trackers an iteration started with
FeasibleRooms(t, orsThen, surgeonsThen) ==
    {r \in Rooms : FeasibleIn(r, t, orsThen, surgeonsThen)}

\* position of a room in registration order
RoomIndex(r) == CHOOSE i \in 1..Len(or_ids) : or_ids[i] = r

\* C12: when the search of the latest iteration returned a slot, its start is
\* the least candidate start over the feasible rooms and its room is the first
\* room in registration order among the feasible rooms with that start.
SearchReturnsEarliestFirstRoom ==
    (last.s_id # 0 /\ last.or_id # None) =>
        LET t == added[last.s_id]
            F == FeasibleRooms(t, last.ors, last.surgeons)
            best == {r \in F : CandidateStart(r, t, last.ors, last.surgeons) = last.start}
        IN  /\ last.or_id \in best
            /\ \A r \in F : CandidateStart(r, t, last.ors, last.surgeons) >= last.start
            /\ \A r \in best : RoomIndex(last.or_id) <= RoomIndex(r)

\* A search that returned the second registered room because it was strictly
\* earlier than the first, which was feasible too, after an earlier search in
\* this run had two rooms with the same earliest start.
SearchReturnsEarliestWitness ==
    /\ last.s_id # 0 /\ last.or_id # None
    /\ Len(or_ids) > 1 /\ last.or_id = or_ids[2]
    /\ FeasibleIn(or_ids[1], added[last.s_id], last.ors, last.surgeons)
    /\ CandidateStart(or_ids[1], added[last.s_id], last.ors, last.surgeons) > last.start
    /\ \E t \in Scheduled :
          /\ t.scheduled_or = or_ids[1]
          /\ t.scheduled_start_time = GlobalStart
          /\ t.surgeon_id # added[last.s_id].surgeon_id

\* C13: the task committed by the latest iteration starts no earlier than the
\* next-free time its room had when it was popped, the next-free time its
\* surgeon had then, and the start of its surgeon's window; every scheduled
\* task starts at or after its surgeon's window start and the global day start.
StartRespectsAvailability ==
    /\ \A t \in Scheduled :
          /\ t.scheduled_start_time >= WindowStart(t.surgeon_id)
          /\ t.scheduled_start_time >= GlobalStart
    /\ \A t \in Scheduled :
          t.s_id = last.s_id =>
             /\ t.scheduled_start_time >= last.ors[t.scheduled_or]
             /\ t.surgeon_id \in DOMAIN last.surgeons =>
                   t.scheduled_start_time >= last.surgeons[t.surgeon_id]

\* A registered surgeon whose shift opens after the day start is committed at
\* the shift start although the room and the surgeon were free earlier.
StartRespectsAvailabilityWitness ==
    \E t \in Scheduled :
        /\ t.s_id = last.s_id
        /\ t.surgeon_id \in DOMAIN last.surgeons
        /\ WindowStart(t.surgeon_id) > GlobalStart
        /\ t.scheduled_start_time = WindowStart(t.surgeon_id)
        /\ last.ors[t.scheduled_or] < t.scheduled_start_time
        /\ last.surgeons[t.surgeon_id] < t.scheduled_start_time

\* the step is a loop iteration, and it put its task into the scheduled list
CommitStep ==
    /\ popped' # popped
    /\ popped'[Len(popped')] \in {t.s_id : t \in Range(scheduled_surgeries')}

\* the step is a loop iteration, and it put its task into the unscheduled list
RejectStep ==
    /\ popped' # popped
    /\ popped'[Len(popped')] \in {t.s_id : t \in Range(unscheduled_surgeries')}

\* C14: a commit sets the three outcome fields of its task and sets the
\* tracker of the chosen room and of the task's surgeon to the task's end time
\* in the same step; every other room and surgeon entry keeps its value.
CommitFrame ==
    [][ CommitStep =>
          LET id == popped'[Len(popped')]
              t == CHOOSE x \in Range(scheduled_surgeries') : x.s_id = id
          IN  /\ t.scheduled_or \in Rooms
              /\ t.scheduled_start_time # NoTime
              /\ t.scheduled_end_time # NoTime
              /\ ors'[t.scheduled_or] = t.scheduled_end_time
              /\ surgeons'[t.surgeon_id] = t.scheduled_end_time
              /\ DOMAIN ors' = DOMAIN ors
              /\ DOMAIN surgeons' = DOMAIN surgeons \cup {t.surgeon_id}
              /\ \A r \in DOMAIN ors \ {t.scheduled_or} : ors'[r] = ors[r]
              /\ \A s \in DOMAIN surgeons \ {t.surgeon_id} : surgeons'[s] = surgeons[s] ]_vars

\* The latest iteration committed a task whose end differs from what the
\* trackers of its room and surgeon held before, in a run where another room
\* and another surgeon already carry a later time of their own.
CommitFrameWitness ==
    \E t \in Scheduled :
        /\ t.s_id = last.s_id
        /\ ors[t.scheduled_or] = t.scheduled_end_time
        /\ surgeons[t.surgeon_id] = t.scheduled_end_time
        /\ last.ors[t.scheduled_or] # t.scheduled_end_time
        /\ \E r \in Rooms \ {t.scheduled_or} : ors[r] > GlobalStart /\ ors[r] # t.scheduled_end_time
        /\ \E s \in DOMAIN surgeons \ {t.surgeon_id} : surgeons[s] > GlobalStart /\ surgeons[s] # t.scheduled_end_time

\* list b holds the tasks of list a, each once, in ascending start order
SortedRearrangement(a, b) ==
    /\ Len(a) = Len(b)
    /\ Range(a) = Range(b)
    /\ \A i, j \in 1..Len(b) : i < j => b[i].scheduled_start_time <= b[j].scheduled_start_time

\* C15: an iteration that finds no slot appends its task, outcome fields
\* unset, to unscheduled and changes no tracker entry and no scheduled task;
\* the scheduled list itself is as before, or, when this iteration emptied the
\* queue, as line 165 sorted it on the way out.
RejectFrame ==
    [][ RejectStep =>
          LET id == popped'[Len(popped')]
          IN  /\ unscheduled_surgeries' = Append(unscheduled_surgeries, added[id])
              /\ added[id].scheduled_or = None
              /\ added[id].scheduled_start_time = NoTime
              /\ added[id].scheduled_end_time = NoTime
              /\ ors' = ors
              /\ surgeons' = surgeons
              /\ \/ scheduled_surgeries' = scheduled_surgeries
                 \/ /\ pending_surgeries' = <<>>
                    /\ SortedRearrangement(scheduled_surgeries, scheduled_surgeries') ]_vars

\* The latest iteration rejected a task of a surgeon who has no tracker
\* entry, while a task is already scheduled and the queue is not yet empty.
RejectFrameWitness ==
    /\ last.s_id \in Ids(Unscheduled)
    /\ added[last.s_id].surgeon_id \notin DOMAIN surgeons
    /\ Scheduled # {}
    /\ pc = "running"

\* C16: every added task is in exactly one of pending, scheduled and
\* unscheduled; a task in scheduled or unscheduled stays in that list with the
\* same outcome fields and never shows up in pending or in the other list.
OutcomeIsTerminal ==
    [][ /\ \A t \in Scheduled :
              /\ t \in Range(scheduled_surgeries')
              /\ t.s_id \notin {x.s_id : x \in Range(pending_surgeries') \cup Range(unscheduled_surgeries')}
        /\ \A u \in Unscheduled :
              /\ u \in Range(unscheduled_surgeries')
              /\ u.s_id \notin {x.s_id : x \in Range(pending_surgeries') \cup Range(scheduled_surgeries')}
        /\ Len(pending_surgeries') + Len(scheduled_surgeries') + Len(unscheduled_surgeries') = Len(added')
        /\ \A a \in Range(added') :
              a.s_id \in {x.s_id : x \in Range(pending_surgeries') \cup Range(scheduled_surgeries')
                                        \cup Range(unscheduled_surgeries')} ]_vars

\* The first task popped is scheduled, the second one unscheduled, and a
\* further commit and the final sort have run since.
OutcomeIsTerminalWitness ==
    /\ pc = "done"
    /\ Len(popped) >= 3
    /\ popped[1] \in Ids(Scheduled)
    /\ popped[2] \in Ids(Unscheduled)
    /\ popped[3] \in Ids(Scheduled)

\* position of a task in pop order
PopIndex(id) == CHOOSE i \in 1..Len(popped) : popped[i] = id

\* C17: when the run has returned, scheduled_surgeries is in ascending start
\* order and tasks with equal starts are in the order they were committed.
ScheduledSortedStable ==
    pc = "done" =>
        \A i, j \in 1..Len(scheduled_surgeries) :
            i < j =>
                /\ scheduled_surgeries[i].scheduled_start_time <= scheduled_surgeries[j].scheduled_start_time
                /\ scheduled_surgeries[i].scheduled_start_time = scheduled_surgeries[j].scheduled_start_time
                      => PopIndex(scheduled_surgeries[i].s_id) < PopIndex(scheduled_surgeries[j].s_id)

\* The returned list has two tasks with the same start, and a task that was
\* committed later than the task that follows it in the list.
ScheduledSortedStableWitness ==
    /\ pc = "done"
    /\ \E i, j \in 1..Len(scheduled_surgeries) :
          /\ i < j
          /\ scheduled_surgeries[i].scheduled_start_time = scheduled_surgeries[j].scheduled_start_time
    /\ \E i, j \in 1..Len(scheduled_surgeries) :
          /\ i < j
          /\ PopIndex(scheduled_surgeries[i].s_id) > PopIndex(scheduled_surgeries[j].s_id)

\* the three keys of a task, any label but Emergency and Urgent having value 3
SortKey(t) ==
    << CASE t.priority = "Emergency" -> 1 [] t.priority = "Urgent" -> 2 [] OTHER -> 3,
       t.surgeon_seniority, t.duration >>

\* C18: Surgery.__lt__ is a strict weak ordering: irreflexive, transitive, and
\* two tasks are incomparable exactly when priority value, seniority and
\* duration agree, which makes incomparability an equivalence.
LtStrictWeakOrder ==
    compared # <<>> =>
        LET n == Len(operands)
            inc(i, j) == ~compared[i][j] /\ ~compared[j][i]
        IN  /\ \A i \in 1..n : ~compared[i][i]
            /\ \A i, j, k \in 1..n : (compared[i][j] /\ compared[j][k]) => compared[i][k]
            /\ \A i, j \in 1..n : inc(i, j) <=> SortKey(operands[i]) = SortKey(operands[j])
            /\ \A i, j, k \in 1..n : (inc(i, j) /\ inc(j, k)) => inc(i, k)

\* A Routine and an Elective task with the same seniority and duration came
\* out incomparable, and a third task came out below both.
LtStrictWeakOrderWitness ==
    /\ compared # <<>>
    /\ operands[1].priority = "Routine" /\ operands[2].priority = "Elective"
    /\ ~compared[1][2] /\ ~compared[2][1]
    /\ compared[3][1] /\ compared[3][2]
    /\ operands[3].priority = "Elective"

\* C19: for every room the durations scheduled in it add up to at most the
\* 540 minutes of the day window; idle minutes are never negative and
\* utilization (scheduled minutes over available minutes) is at most 100%.
RoomLoadWithinDay ==
    \A r \in Rooms :
        /\ scheduled_minutes(r) <= GlobalEnd - GlobalStart
        /\ idle(r) >= 0
        /\ scheduled_minutes(r) * 100 <= 100 * total_minutes_available

\* A room carries more than one task and over 420 minutes, and a short task
\* found no room left.
RoomLoadWitness ==
    /\ pc = "done"
    /\ \E r \in Rooms :
          /\ scheduled_minutes(r) > 420
          /\ Cardinality({t \in Scheduled : t.scheduled_or = r}) > 1
    /\ \E u \in Unscheduled : u.duration > 0 /\ u.duration <= 120

\* C20: of two scheduled tasks that share a room or a surgeon, the one popped
\* first ends at or before the start of the one popped later.
TimeFollowsPopOrder ==
    \A a, b \in Scheduled :
        ( /\ PopIndex(a.s_id) < PopIndex(b.s_id)
          /\ (a.scheduled_or = b.scheduled_or \/ a.surgeon_id = b.surgeon_id) )
        => a.scheduled_end_time <= b.scheduled_start_time

\* The same statement for runs in which every duration is positive.
TimeFollowsPopOrderValidDurations == ValidDurations => TimeFollowsPopOrder
====
